---- MODULE Spec2Model ----
(***************************************************************************)
(* Service-Advisor agent: the adaptive retriever (TechAgent.build_context),*)
(* the conversational booking extractor (BookingAgent.run) and the intent  *)
(* classifier (OrchestratorAgent.classify).                                *)
(*                                                                         *)
(* Similarity scores are floats in the source; here they are hundredths    *)
(* (0.65 is 65).  Python None / JSON null, booleans and the other JSON     *)
(* values the model may emit are tagged strings so that values of          *)
(* different Python types stay comparable.                                 *)
(***************************************************************************)
EXTENDS Integers, Sequences, FiniteSets, TLC

\* ------------------------------------------------------------------------
\* Bounds of the model
\* ------------------------------------------------------------------------
MaxMatches == 2     \* matches one index.query returns here (the code asks for top_k = 5)
MaxLines == 4       \* non-empty lines in the query-expansion model reply

\* ------------------------------------------------------------------------
\* Program constants
\* ------------------------------------------------------------------------
FAST_THRESHOLD == 65
LOW_THRESHOLD == 50
FAST_TOP == 5
RAG_TOP_K == 15
MAX_VARIATIONS == 3

NO_ANSWER_FOUND == "NO_ANSWER_FOUND"
NO_RECALL_FOUND == "NO_RECALL_FOUND"

\* ------------------------------------------------------------------------
\* Generic helpers
\* ------------------------------------------------------------------------
Min2(a, b) == IF a <= b THEN a ELSE b

SetMax(S) == CHOOSE m \in S : \A x \in S : x <= m

\* seq[:n]
Take(seq, n) == SubSeq(seq, 1, Min2(n, Len(seq)))

\* seq[-n:]
LastN(seq, n) == IF Len(seq) <= n THEN seq ELSE SubSeq(seq, Len(seq) - n + 1, Len(seq))

SeqsUpTo(S, n) == UNION {[1..k -> S] : k \in 0..n}

\* ========================================================================
\* Retrieval: TechAgent.build_context
\* ========================================================================
ChunkIds == {"c1", "c2"}
Scores == {49, 50, 65, 66}

\* what one index.query call can return: an ordered list of {id, score}, an id
\* at most once per call
QueryResults ==
    {res \in SeqsUpTo([id : ChunkIds, score : Scores], MaxMatches) :
        \A i, j \in 1..Len(res) : res[i].id = res[j].id => i = j}

MaxFastMatches == 3  \* matches per namespace where the fast path is checked alone

NamespaceKinds == {"manual", "carfax"}
WideScores == {60, 65, 66, 70}
WideIds(ns) ==
    IF ns = "manual" THEN <<"m1", "m2", "m3", "m4", "m5">> ELSE <<"x1", "x2", "x3", "x4", "x5">>

\* what index.query(top_k=5, namespace=ns) can return there
WideResults(ns) ==
    UNION {{[i \in 1..k |-> [id |-> WideIds(ns)[i], score |-> sc[i]]] : sc \in [1..k -> WideScores]}
           : k \in 0..MaxFastMatches}

VARIABLES
    r_pc,             \* position inside build_context
    carfax_namespace, \* TRUE when a Carfax namespace was passed
    is_recall_q,      \* _is_recall_question(search_query)
    all_matches,      \* fast-search matches, merged over the namespaces
    best_score,       \* score the confidence gate looked at
    n_queries,        \* len(search_queries) on the expansion path
    q_idx,            \* index of the query variation being searched
    ns_idx,           \* index of the namespace being searched
    unique_matches,   \* dict id -> match, in insertion order
    r_result,         \* what build_context returned (or raised)
    gen_calls,        \* model calls made by generate_search_queries
    embed_calls,      \* embeddings.embed_query calls
    query_calls,      \* index.query calls
    fast_max,         \* history: the highest score the fast search returned (0: none)
    seen,             \* history: per id, every score the expansion searches returned
    gen_failed,       \* history: chain.invoke of generate_search_queries raised
    answer,           \* what TechAgent.run returned to the message handler
    fast_results,     \* history: what each index.query of the fast search returned
    same_results      \* assumption: the gateways answer a repeated query the same way

retrVars == <<r_pc, carfax_namespace, is_recall_q, all_matches, best_score,
              n_queries, q_idx, ns_idx, unique_matches, r_result,
              gen_calls, embed_calls, query_calls, fast_max, seen, gen_failed, answer,
              fast_results, same_results>>

VARIABLES
    appointment,      \* the six fields of appointment_data[user_id] (Null: not set)
    messages,         \* appointment["messages"]
    turns,            \* booking turns run on the record
    turn              \* the last turn: model output, what run returned, what the merge met

bookVars == <<appointment, messages, turns, turn>>

VARIABLES
    user_text,        \* what the keyword checks of the classifier see in the message
    model_reply,      \* what the classifier's model call did
    decision,         \* the dict classify returned
    c_outcome         \* the path classify took: none, fast, llm, fallback, raised

clsVars == <<user_text, model_reply, decision, c_outcome>>

VARIABLES
    history,          \* the prior turns handed to contextualize_query
    latest_query,     \* the new utterance
    ctx_result,       \* what contextualize_query returned (or that it raised)
    ctx_calls,        \* chain.invoke calls made by contextualize_query
    ctx_outcome       \* none, short_circuit, rewritten, invoke_failed, get_llm_failed

ctxVars == <<history, latest_query, ctx_result, ctx_calls, ctx_outcome>>

VARIABLES
    phone_text,       \* the text handed to OrchestratorAgent.extract_phone
    phone_result,     \* what extract_phone returned
    phone_calls,      \* model calls made by extract_phone
    phone_outcome     \* none, regex, llm, llm_failed

phoneVars == <<phone_text, phone_result, phone_calls, phone_outcome>>

VARIABLES
    user_sessions,    \* dict user_id -> session
    appointment_data, \* dict user_id -> booking record
    saved,            \* per user, the calls of save_appointment
    blocked_users,    \* the advisor's block list
    rate_limit,       \* per user, the timestamps inside the rate-limit window
    advisor_set,      \* ADVISOR_TELEGRAM_ID is configured
    updates,          \* updates (messages and commands) handled so far
    last              \* the last update handled: user, path taken, how finalisation ended

hdlVars == <<user_sessions, appointment_data, saved, blocked_users, rate_limit,
             advisor_set, updates, last>>

VARIABLES
    rate_stamps,      \* _rate_limit: per user, the timestamps check_rate_limit kept
    now,              \* the last value time.time() returned
    accepted,         \* history: per user, the times of the calls that returned True
    rl_last,          \* the last check_rate_limit call: its user and what it returned
    rl_calls          \* check_rate_limit calls made so far

rlVars == <<rate_stamps, now, accepted, rl_last, rl_calls>>

vars == <<retrVars, bookVars, clsVars, ctxVars, phoneVars, hdlVars, rlVars>>

\* what the operations of one component leave alone
RetrFrame == UNCHANGED <<bookVars, clsVars, ctxVars, phoneVars, hdlVars, rlVars>>
BookFrame == UNCHANGED <<retrVars, clsVars, ctxVars, phoneVars, hdlVars, rlVars>>
ClsFrame == UNCHANGED <<retrVars, bookVars, ctxVars, phoneVars, hdlVars, rlVars>>
CtxFrame == UNCHANGED <<retrVars, bookVars, clsVars, phoneVars, hdlVars, rlVars>>
PhoneFrame == UNCHANGED <<retrVars, bookVars, clsVars, ctxVars, hdlVars, rlVars>>
HdlFrame == UNCHANGED <<retrVars, bookVars, clsVars, ctxVars, phoneVars, rlVars>>
RlFrame == UNCHANGED <<retrVars, bookVars, clsVars, ctxVars, phoneVars, hdlVars>>

\* namespaces_to_search = [namespace] (+ [carfax_namespace])
namespaces_to_search == IF carfax_namespace THEN <<"manual", "carfax">> ELSE <<"manual">>

\* what build_context gives its caller; error names the call whose exception
\* left build_context
NoResult == [kind |-> "none", sentinel |-> "", chunks |-> <<>>, error |-> ""]
Raised(call) == [kind |-> "raised", sentinel |-> "", chunks |-> <<>>, error |-> call]
Sentinel(s) == [kind |-> "sentinel", sentinel |-> s, chunks |-> <<>>, error |-> ""]
\* "\n---\n".join(chunks): the chunk texts in order (a chunk's text is named by its id)
JoinChunks(matches) == [kind |-> "context", sentinel |-> "",
                        chunks |-> [i \in 1..Len(matches) |-> matches[i].id], error |-> ""]

\* match["metadata"]["source_namespace"] = ns
Tag(res, ns) == [i \in 1..Len(res) |-> [id |-> res[i].id, score |-> res[i].score, ns |-> ns]]

\* list.sort(key=score, reverse=True): stable, descending
RECURSIVE InsertDesc(_, _)
InsertDesc(sorted, m) ==
    IF sorted = <<>> THEN <<m>>
    ELSE IF Head(sorted).score >= m.score
         THEN <<Head(sorted)>> \o InsertDesc(Tail(sorted), m)
         ELSE <<m>> \o sorted

RECURSIVE SortDesc(_)
SortDesc(seq) ==
    IF seq = <<>> THEN <<>>
    ELSE InsertDesc(SortDesc(SubSeq(seq, 1, Len(seq) - 1)), seq[Len(seq)])

\* best_score = all_matches[0]["score"] if all_matches else 0.0  (after the sort)
BestScoreFirstOnly(matches) == IF matches = <<>> THEN 0 ELSE matches[1].score
BestScore(matches) == IF matches = <<>> THEN 0 ELSE SortDesc(matches)[1].score

\* if best_score > 0.65
FastGate(score) == score > FAST_THRESHOLD

\* index of id in the dict, 0 when absent
IndexOfId(dict, id) ==
    IF \E i \in 1..Len(dict) : dict[i].id = id
    THEN CHOOSE i \in 1..Len(dict) : dict[i].id = id
    ELSE 0

\* if id not in unique_matches or score > unique_matches[id]["score"]: unique_matches[id] = match
KeepLast(dict, m) ==
    LET i == IndexOfId(dict, m.id) IN
    IF i = 0 THEN Append(dict, m) ELSE [dict EXCEPT ![i] = m]
KeepBest(dict, m) ==
    LET i == IndexOfId(dict, m.id) IN
    IF i = 0 THEN Append(dict, m)
    ELSE IF m.score > dict[i].score THEN [dict EXCEPT ![i] = m]
    ELSE dict

RECURSIVE Dedup(_, _)
Dedup(dict, matches) ==
    IF matches = <<>> THEN dict
    ELSE Dedup(KeepBest(dict, Head(matches)), Tail(matches))

\* the sentinel of lines 196-210
NoAnswerAlways(recall, carfax) == NO_ANSWER_FOUND
NoAnswerSentinel(recall, carfax) ==
    IF recall /\ carfax THEN NO_RECALL_FOUND ELSE NO_ANSWER_FOUND

\* lines 194-220
FinishAboveOnly(dict, recall, carfax) ==
    LET final_matches == Take(SortDesc(dict), RAG_TOP_K) IN
    IF final_matches = <<>> THEN Sentinel(NoAnswerSentinel(recall, carfax))
    ELSE IF final_matches[1].score <= LOW_THRESHOLD THEN Sentinel(NoAnswerSentinel(recall, carfax))
    ELSE JoinChunks(final_matches)
Finish(dict, recall, carfax) ==
    LET final_matches == Take(SortDesc(dict), RAG_TOP_K) IN
    IF final_matches = <<>> THEN Sentinel(NoAnswerSentinel(recall, carfax))
    ELSE IF final_matches[1].score < LOW_THRESHOLD THEN Sentinel(NoAnswerSentinel(recall, carfax))
    ELSE JoinChunks(final_matches)

\* queries[:3] of the non-empty lines of the model reply
Variations(lines) == Min2(lines, MAX_VARIATIONS)

\* the except branch of generate_search_queries returns []
FailureQueriesEcho == <<"user_text">>
FailureQueries == <<>>

\* The text TechAgent.run returns, as the handler reads it: no_answer says it
\* contains "NO_ANSWER_FOUND", visit that it contains "[VISIT:YES]"
NoAnswer == [kind |-> "none", no_answer |-> FALSE, visit |-> FALSE]
ErrorText == [kind |-> "error_text", no_answer |-> FALSE, visit |-> FALSE]
NoRecallMessage == [kind |-> "no_recall_msg", no_answer |-> FALSE, visit |-> FALSE]
LlmAnswers == [kind : {"llm"}, no_answer : BOOLEAN, visit : BOOLEAN]

RetrInit ==
    /\ r_pc = "fast_embed"
    /\ carfax_namespace \in BOOLEAN
    /\ is_recall_q \in BOOLEAN
    /\ all_matches = <<>>
    /\ best_score = 0
    /\ n_queries = 0
    /\ q_idx = 0
    /\ ns_idx = 0
    /\ unique_matches = <<>>
    /\ r_result = NoResult
    /\ gen_calls = 0
    /\ embed_calls = 0
    /\ query_calls = 0
    /\ fast_max = 0
    /\ seen = [c \in ChunkIds |-> {}]
    /\ gen_failed = FALSE
    /\ answer = NoAnswer
    /\ fast_results = <<>>
    /\ same_results = FALSE

\* a retrieval call during which the gateways answer a repeated query the
\* same way
RepeatInit ==
    /\ r_pc = "fast_embed"
    /\ carfax_namespace \in BOOLEAN
    /\ is_recall_q \in BOOLEAN
    /\ all_matches = <<>>
    /\ best_score = 0
    /\ n_queries = 0
    /\ q_idx = 0
    /\ ns_idx = 0
    /\ unique_matches = <<>>
    /\ r_result = NoResult
    /\ gen_calls = 0
    /\ embed_calls = 0
    /\ query_calls = 0
    /\ fast_max = 0
    /\ seen = [c \in ChunkIds |-> {}]
    /\ gen_failed = FALSE
    /\ answer = NoAnswer
    /\ fast_results = <<>>
    /\ same_results = TRUE

RetrIdle ==
    /\ r_pc = "idle"
    /\ carfax_namespace = FALSE
    /\ is_recall_q = FALSE
    /\ all_matches = <<>>
    /\ best_score = 0
    /\ n_queries = 0
    /\ q_idx = 0
    /\ ns_idx = 0
    /\ unique_matches = <<>>
    /\ r_result = NoResult
    /\ gen_calls = 0
    /\ embed_calls = 0
    /\ query_calls = 0
    /\ fast_max = 0
    /\ seen = [c \in ChunkIds |-> {}]
    /\ gen_failed = FALSE
    /\ answer = NoAnswer
    /\ fast_results = <<>>
    /\ same_results = FALSE

Raise(call) ==
    /\ r_pc' = "raised"
    /\ r_result' = Raised(call)

\* line 144: query_vector = embeddings.embed_query(search_query)
FastEmbed ==
    /\ RetrFrame
    /\ r_pc = "fast_embed"
    /\ embed_calls' = embed_calls + 1
    /\ \/ /\ r_pc' = "fast_query"
          /\ ns_idx' = 1
          /\ UNCHANGED r_result
       \/ /\ Raise("embed_query")
          /\ UNCHANGED ns_idx
    /\ UNCHANGED <<carfax_namespace, is_recall_q, all_matches, best_score, n_queries,
                   q_idx, unique_matches, gen_calls, query_calls, fast_max, seen,
                   gen_failed, answer,
                   fast_results, same_results>>

\* line 156: all_matches.append(match), for the matches of one namespace
MergePrimaryOnly(all, tagged) == IF all = <<>> THEN tagged ELSE all
MergeMatches(all, tagged) == all \o tagged

\* lines 147-156: one index.query of the fast search and the loop body after
\* it; results[ns] is what the query of namespace ns may return
FastQueryFrom(results) ==
    /\ RetrFrame
    /\ r_pc = "fast_query"
    /\ query_calls' = query_calls + 1
    /\ \/ \E res \in results[namespaces_to_search[ns_idx]] :
             /\ all_matches' = MergeMatches(all_matches, Tag(res, namespaces_to_search[ns_idx]))
             /\ fast_results' = Append(fast_results, res)
             /\ fast_max' = SetMax({fast_max} \cup {res[i].score : i \in 1..Len(res)})
             /\ IF ns_idx < Len(namespaces_to_search)
                THEN ns_idx' = ns_idx + 1 /\ r_pc' = "fast_query"
                ELSE ns_idx' = 0 /\ r_pc' = "gate"
             /\ UNCHANGED r_result
       \/ /\ Raise("index_query")
          /\ UNCHANGED <<all_matches, fast_max, ns_idx, fast_results>>
    /\ UNCHANGED <<carfax_namespace, is_recall_q, best_score, n_queries, q_idx,
                   unique_matches, gen_calls, embed_calls, seen, gen_failed, answer,
                   same_results>>

FastQuery == FastQueryFrom([ns \in NamespaceKinds |-> QueryResults])

\* the fast search with up to MaxFastMatches matches per namespace, each
\* namespace with ids of its own
FastQueryWide == FastQueryFrom([ns \in NamespaceKinds |-> WideResults(ns)])

\* lines 158-170: sort, confidence gate, fast return.  all_matches is not read
\* again once the gate has failed and is dropped there, and so is the history
\* of the fast search unless the repeated query has to be answered from it.
Gate ==
    /\ RetrFrame
    /\ r_pc = "gate"
    /\ best_score' = BestScore(all_matches)
    /\ IF FastGate(best_score')
       THEN /\ all_matches' = SortDesc(all_matches)
            /\ r_result' = JoinChunks(Take(all_matches', FAST_TOP))
            /\ r_pc' = "done"
       ELSE /\ all_matches' = <<>>
            /\ r_result' = r_result
            /\ r_pc' = "generate"
    /\ fast_results' = IF same_results /\ ~FastGate(best_score') THEN fast_results ELSE <<>>
    /\ UNCHANGED <<carfax_namespace, is_recall_q, n_queries, q_idx, ns_idx, unique_matches,
                   gen_calls, embed_calls, query_calls, fast_max, seen, gen_failed, answer,
                   same_results>>

\* lines 172-173 with generate_search_queries (85-103): the model reply has
\* `lines` non-empty lines, or chain.invoke raises, or get_llm() raises
GenerateQueries ==
    /\ RetrFrame
    /\ r_pc = "generate"
    /\ \/ \E lines \in 0..MaxLines :
             /\ gen_calls' = gen_calls + 1
             /\ n_queries' = 1 + Variations(lines)
             /\ q_idx' = 1
             /\ r_pc' = "exp_embed"
             /\ UNCHANGED <<r_result, gen_failed>>
       \/ /\ gen_calls' = gen_calls + 1
          /\ gen_failed' = TRUE
          /\ n_queries' = 1 + Len(FailureQueries)
          /\ q_idx' = 1
          /\ r_pc' = "exp_embed"
          /\ UNCHANGED r_result
       \/ /\ Raise("get_llm")
          /\ UNCHANGED <<gen_calls, n_queries, q_idx, gen_failed>>
    /\ UNCHANGED <<carfax_namespace, is_recall_q, all_matches, best_score, ns_idx,
                   unique_matches, embed_calls, query_calls, fast_max, seen, answer,
                   fast_results, same_results>>

\* line 178: vec = embeddings.embed_query(query)
ExpEmbed ==
    /\ RetrFrame
    /\ r_pc = "exp_embed"
    /\ embed_calls' = embed_calls + 1
    /\ \/ /\ r_pc' = "exp_query"
          /\ ns_idx' = 1
          /\ UNCHANGED r_result
       \/ /\ Raise("embed_query")
          /\ UNCHANGED ns_idx
    /\ UNCHANGED <<carfax_namespace, is_recall_q, all_matches, best_score, n_queries,
                   q_idx, unique_matches, gen_calls, query_calls, fast_max, seen,
                   gen_failed, answer,
                   fast_results, same_results>>

\* line 173: search_queries = [search_query] + variations, so the first query
\* of the expansion repeats the query of the fast search
RepeatsNoQuery(q) == FALSE
RepeatsFastSearch(q) == q = 1

\* what index.query may return for query q in the namespace at position n:
\* anything, or, when repeated queries are answered the same way, what the
\* fast search got for that namespace
ExpResults(q, n) ==
    IF same_results /\ RepeatsFastSearch(q) THEN {fast_results[n]} ELSE QueryResults

\* lines 181-192: one index.query of the expansion search and the dedup loop after
\* it.  The source_namespace tag of line 189 is read only by the log of lines
\* 213-217 and is not kept in unique_matches.  The history of the fast search
\* is dropped once the repeated query has been answered from it.
ExpQuery ==
    /\ RetrFrame
    /\ r_pc = "exp_query"
    /\ query_calls' = query_calls + 1
    /\ \/ \E res \in ExpResults(q_idx, ns_idx) :
             /\ unique_matches' = Dedup(unique_matches, res)
             /\ fast_results' = IF ns_idx < Len(namespaces_to_search) THEN fast_results ELSE <<>>
             /\ seen' = [c \in ChunkIds |->
                    seen[c] \cup {res[i].score : i \in {j \in 1..Len(res) : res[j].id = c}}]
             /\ IF ns_idx < Len(namespaces_to_search)
                THEN /\ ns_idx' = ns_idx + 1
                     /\ UNCHANGED <<q_idx, r_pc>>
                ELSE /\ ns_idx' = 0
                     /\ IF q_idx < n_queries
                        THEN q_idx' = q_idx + 1 /\ r_pc' = "exp_embed"
                        ELSE q_idx' = q_idx /\ r_pc' = "finalize"
             /\ UNCHANGED r_result
       \/ /\ Raise("index_query")
          /\ UNCHANGED <<unique_matches, seen, ns_idx, q_idx, fast_results>>
    /\ UNCHANGED <<carfax_namespace, is_recall_q, all_matches, best_score, n_queries,
                   gen_calls, embed_calls, fast_max, gen_failed, answer,
                   same_results>>

\* lines 194-220: sort, cut-off, sentinel or context
Finalize ==
    /\ RetrFrame
    /\ r_pc = "finalize"
    /\ r_result' = Finish(unique_matches, is_recall_q, carfax_namespace)
    /\ r_pc' = "done"
    /\ UNCHANGED <<carfax_namespace, is_recall_q, all_matches, best_score, n_queries, q_idx,
                   ns_idx, unique_matches, gen_calls, embed_calls, query_calls,
                   fast_max, seen, gen_failed, answer,
                   fast_results, same_results>>

\* TechAgent.run, lines 238-276, after build_context has returned or raised:
\* the canned reply for NO_RECALL_FOUND, else the answering model call with the
\* context (the NO_ANSWER_FOUND sentinel included) in its prompt; every
\* exception, that of build_context too, becomes the error text of line 272
RunAnswer ==
    /\ RetrFrame
    /\ r_pc \in {"done", "raised"}
    /\ r_pc' = "answered"
    /\ IF r_result.kind = "raised" THEN answer' = ErrorText
       ELSE IF r_result = Sentinel(NO_RECALL_FOUND) THEN answer' = NoRecallMessage
       ELSE \/ answer' \in LlmAnswers
            \/ answer' = ErrorText
    /\ UNCHANGED <<carfax_namespace, is_recall_q, all_matches, best_score, n_queries, q_idx,
                   ns_idx, unique_matches, r_result, gen_calls, embed_calls, query_calls,
                   fast_max, seen, gen_failed,
                   fast_results, same_results>>


\* ========================================================================
\* Booking: BookingAgent.run and BookingAgent._parse_response
\* ========================================================================
Keys == {"name", "phone", "vehicle", "service_type", "preferred_date", "preferred_time"}

\* values
Null == "None"          \* Python None, JSON null
NullStr == "'null'"     \* the literal placeholder string "null"
EmptyStr == "''"        \* a falsy non-null value (empty string, 0, false)
Absent == "<absent>"    \* key missing from the JSON object
JTrue == "True"
JFalse == "False"
JYes == "'yes'"         \* a truthy value that is not the boolean true
FieldValues == {"v1", "v2"}

\* Python truthiness
Truthy(v) == v \notin {Null, EmptyStr, JFalse, Absent}

\* The model output is a sequence of tokens: text without braces ("txt"),
\* whitespace ("ws"), the tags [BOOKING_DATA] ("open") and [/BOOKING_DATA]
\* ("close"), and a brace-delimited object without nested braces ("obj").
\* All the objects of one output carry the same payload.
Tokens == {"txt", "ws", "open", "close", "obj"}

\* a payload: valid says json.loads accepts the object, kw that its text
\* contains "complete" in quotes
JsonPayload(S, v, c) ==
    [valid |-> TRUE, kw |-> c # Absent,
     data |-> [k \in Keys |-> IF k \in S THEN v ELSE Null], complete |-> c]
EmptyDict == [valid |-> TRUE, kw |-> FALSE, data |-> [k \in Keys |-> Absent], complete |-> Absent]
BadJson(kw) == [valid |-> FALSE, kw |-> kw, data |-> [k \in Keys |-> Absent], complete |-> Absent]

\* str.strip()
RECURSIVE LStrip(_)
LStrip(seq) == IF seq # <<>> /\ Head(seq) = "ws" THEN LStrip(Tail(seq)) ELSE seq
RECURSIVE RStrip(_)
RStrip(seq) ==
    IF seq # <<>> /\ seq[Len(seq)] = "ws" THEN RStrip(SubSeq(seq, 1, Len(seq) - 1)) ELSE seq
Strip(seq) == RStrip(LStrip(seq))

\* first index after i that is not whitespace (Len(raw) + 1 when there is none)
RECURSIVE SkipWs(_, _)
SkipWs(raw, i) == IF i <= Len(raw) /\ raw[i] = "ws" THEN SkipWs(raw, i + 1) ELSE i

\* \s*\[/BOOKING_DATA\] matches right after token k
ClosesAfter(raw, k) ==
    LET c == SkipWs(raw, k + 1) IN c <= Len(raw) /\ raw[c] = "close"

\* re.search(r'\[BOOKING_DATA\]\s*(\{.*?\})\s*\[/BOOKING_DATA\]', raw, re.DOTALL):
\* the matches <<i, j, k>>: tag at i, group(1) from token j to token k
BlockMatches(raw) ==
    UNION {LET j == SkipWs(raw, i + 1) IN
           IF j <= Len(raw) /\ raw[j] = "obj"
           THEN {<<i, j, k>> : k \in {x \in j..Len(raw) : raw[x] = "obj" /\ ClosesAfter(raw, x)}}
           ELSE {}
           : i \in {x \in 1..Len(raw) : raw[x] = "open"}}

\* leftmost start, then the lazy .*? takes the nearest end
BlockMatchOf(ms) ==
    CHOOSE m \in ms : \A o \in ms : m[1] < o[1] \/ (m[1] = o[1] /\ m[3] <= o[3])
BlockMatch(raw) == BlockMatchOf(BlockMatches(raw))

\* re.search(r'\{[^{}]*"complete"[^{}]*\}', raw, re.DOTALL): index of the match, 0 if none
FallbackMatch(raw, payload) ==
    IF payload.kw /\ \E i \in 1..Len(raw) : raw[i] = "obj"
    THEN CHOOSE i \in 1..Len(raw) : raw[i] = "obj" /\ \A j \in 1..(i - 1) : raw[j] # "obj"
    ELSE 0

NoExtract == [none |-> TRUE, data |-> [k \in Keys |-> Absent], complete |-> Absent]
Extracted(payload) == [none |-> FALSE, data |-> payload.data, complete |-> payload.complete]

\* _parse_response: (reply, extracted)
ParseResponseWholeOnBadBlock(raw, payload) ==
    IF BlockMatches(raw) # {}
    THEN LET m == BlockMatch(raw) IN
         IF m[2] = m[3] /\ payload.valid
         THEN [reply |-> Strip(SubSeq(raw, 1, m[1] - 1)), extracted |-> Extracted(payload)]
         ELSE [reply |-> Strip(raw), extracted |-> NoExtract]
    ELSE LET f == FallbackMatch(raw, payload) IN
         IF f # 0 /\ payload.valid
         THEN [reply |-> Strip(SubSeq(raw, 1, f - 1)), extracted |-> Extracted(payload)]
         ELSE [reply |-> Strip(raw), extracted |-> NoExtract]
ParseResponse(raw, payload) ==
    IF BlockMatches(raw) # {}
    THEN LET m == BlockMatch(raw) IN
         IF m[2] = m[3] /\ payload.valid
         THEN [reply |-> Strip(SubSeq(raw, 1, m[1] - 1)), extracted |-> Extracted(payload)]
         ELSE [reply |-> Strip(SubSeq(raw, 1, m[1] - 1)), extracted |-> NoExtract]
    ELSE LET f == FallbackMatch(raw, payload) IN
         IF f # 0 /\ payload.valid
         THEN [reply |-> Strip(SubSeq(raw, 1, f - 1)), extracted |-> Extracted(payload)]
         ELSE [reply |-> Strip(raw), extracted |-> NoExtract]

\* `if extracted:` a dict is truthy when it has at least one key
DictTruthy(ex) ==
    /\ ~ex.none
    /\ (ex.complete # Absent \/ \E k \in Keys : ex.data[k] # Absent)

\* if extracted.get(key) and extracted[key] != "null": appointment[key] = extracted[key]
MergeValueOverwrite(old, new) == IF new # Absent THEN new ELSE old
MergeValueNoPlaceholder(old, new) == IF Truthy(new) THEN new ELSE old
MergeValue(old, new) == IF Truthy(new) /\ new # NullStr THEN new ELSE old

MergeFields(appt, ex) ==
    IF DictTruthy(ex) THEN [k \in Keys |-> MergeValue(appt[k], ex.data[k])] ELSE appt

\* is_complete = extracted.get("complete", False), False without extraction
IsComplete(ex) ==
    IF DictTruthy(ex) THEN (IF ex.complete = Absent THEN JFalse ELSE ex.complete) ELSE JFalse

ErrorReply == <<"error_msg">>
MAX_MESSAGES == 20
KEEP_MESSAGES == 12

\* if len(messages) > 20: messages = messages[-12:]
Trim(msgs) == IF Len(msgs) > MAX_MESSAGES THEN LastN(msgs, KEEP_MESSAGES) ELSE msgs

MaxTurns == 2       \* booking turns on one record
MaxRawLen == 4      \* tokens in a model output whose parsing is explored


NoTurn == [outcome |-> "none", raw |-> <<>>, payload |-> EmptyDict, reply |-> <<>>,
           is_complete |-> JFalse, all_null |-> FALSE, kept |-> FALSE, replaced |-> FALSE]

\* start_appointment: a fresh record, pre-filled from the session
BookInit ==
    /\ appointment \in {a \in [Keys -> {Null, "v1"}] :
                          \A k \in Keys \ {"name", "phone", "vehicle"} : a[k] = Null}
    /\ messages = <<>>
    /\ turns = 0
    /\ turn = NoTurn

BookIdle ==
    /\ appointment = [k \in Keys |-> Null]
    /\ messages = <<>>
    /\ turns = 0
    /\ turn = NoTurn

\* the extraction has every one of the six fields null (or missing)
AllNull(ex) == ~ex.none /\ \A k \in Keys : ex.data[k] \in {Null, Absent}

\* run, lines 99-151: the model call succeeds with output (raw, payload).
\* keep says whether the payload stays recorded in `turn`.
RunOk(raw, payload, keep) ==
    LET parsed == ParseResponse(raw, payload)
        with_customer == Append(messages, [who |-> "Customer", n |-> turns + 1])
    IN
    /\ appointment' = MergeFields(appointment, parsed.extracted)
    /\ messages' = Trim(Append(with_customer, [who |-> "Advisor", n |-> turns + 1]))
    /\ turn' = [outcome |-> "ok", raw |-> raw,
                payload |-> IF keep THEN payload ELSE EmptyDict,
                reply |-> parsed.reply,
                is_complete |-> IsComplete(parsed.extracted),
                all_null |-> AllNull(parsed.extracted),
                kept |-> \E k \in Keys : /\ appointment[k] # Null
                                          /\ ~parsed.extracted.none
                                          /\ parsed.extracted.data[k] \in {Null, NullStr, EmptyStr}
                                          /\ appointment'[k] = appointment[k],
                replaced |-> \E k \in Keys : appointment[k] # Null /\ appointment'[k] # appointment[k]]

\* run, lines 99-126 and 153-159: get_llm, llm.invoke or the parse raises
RunFail ==
    /\ appointment' = appointment
    /\ messages' = Append(messages, [who |-> "Customer", n |-> turns + 1])
    /\ turn' = [outcome |-> "error", raw |-> <<>>, payload |-> EmptyDict, reply |-> ErrorReply,
                is_complete |-> JFalse, all_null |-> FALSE, kept |-> FALSE, replaced |-> FALSE]

\* model outputs of the multi-turn specification: well-formed and degenerate
\* shapes, every payload
TurnPayloads ==
    {JsonPayload(S, v, c) : S \in SUBSET Keys, v \in {"v2", NullStr}, c \in {Absent, JTrue, JFalse}}
    \cup {JsonPayload(S, v, c) : S \in {Keys, {"name"}}, v \in {"v1", EmptyStr}, c \in {JYes, JFalse}}
TurnOutputs ==
    ({<<"txt", "open", "obj", "close">>} \X TurnPayloads)
    \cup ({<<"txt">>, <<"txt", "ws", "obj">>, <<"txt", "open", "obj", "close", "ws">>}
          \X {EmptyDict, BadJson(TRUE), JsonPayload({"name"}, "v2", JTrue)})

\* model outputs whose parsing is explored: every token sequence, a few payloads
ParsePayloads ==
    {EmptyDict, BadJson(TRUE), BadJson(FALSE),
     JsonPayload({"name", "phone"}, "v2", JTrue), JsonPayload({"name"}, "v2", Absent),
     JsonPayload({}, "v2", JFalse)}
ParseOutputs == SeqsUpTo(Tokens, MaxRawLen) \X ParsePayloads

\* one booking turn (BookingAgent.run as called by handle_booking_message)
BookingTurn ==
    /\ turns < MaxTurns
    /\ turns' = turns + 1
    /\ \/ \E o \in TurnOutputs : RunOk(o[1], o[2], FALSE)
       \/ RunFail
    /\ BookFrame

\* one booking turn, the model output drawn from ParseOutputs
ParseTurn ==
    /\ turns = 0
    /\ turns' = turns + 1
    /\ \E o \in ParseOutputs : RunOk(o[1], o[2], TRUE)
    /\ BookFrame



MaxLongTurns == 12  \* booking turns of a long conversation on one record

\* one booking turn of a long conversation: the model answers with plain text
\* (no block, nothing extracted), or the call fails
LongTurn ==
    /\ turns < MaxLongTurns
    /\ turns' = turns + 1
    /\ \/ RunOk(<<"txt">>, EmptyDict, FALSE)
       \/ RunFail
    /\ BookFrame

\* start_appointment for a user the session knows nothing about
LongInit ==
    /\ appointment = [k \in Keys |-> Null]
    /\ messages = <<>>
    /\ turns = 0
    /\ turn = NoTurn

\* ========================================================================
\* Classification: OrchestratorAgent.classify
\* ========================================================================
Models == <<"passport", "civic", "ridgeline">>      \* VEHICLE_NAMESPACES, in dict order
ModelNames == {Models[i] : i \in 1..Len(Models)}
VEHICLE_NAMESPACES(m) ==
    CASE m = "passport" -> "passport-2026"
      [] m = "civic" -> "civic-2025"
      [] m = "ridgeline" -> "ridgeline-2025"
Namespaces == {VEHICLE_NAMESPACES(m) : m \in ModelNames}

\* A message, as the keyword checks see it:
\*   exact     the stripped, lower-cased text is this model name (Null: none)
\*   mentions  the model names contained in the lower-cased text
\*   fast_kw   contains one of the fast-path booking phrases
\*   fb_kw     contains one of the fallback booking words
\*   greeting  is exactly one of the greetings
\*   question  contains "?" or a question word
Texts ==
    {t \in [exact : ModelNames \cup {Null}, mentions : SUBSET ModelNames, fast_kw : BOOLEAN,
            fb_kw : BOOLEAN, greeting : BOOLEAN, question : BOOLEAN] :
        /\ t.exact # Null =>
              (t.mentions = {t.exact} /\ ~t.fast_kw /\ ~t.fb_kw /\ ~t.greeting /\ ~t.question)
        /\ t.greeting => (t.mentions = {} /\ ~t.fast_kw /\ ~t.fb_kw /\ ~t.question)
        /\ t.fast_kw => t.fb_kw}

\* _detect_vehicle_keyword: the first model of the dict found in the text
DetectVehicle(t) ==
    IF t.mentions = {} THEN Null
    ELSE VEHICLE_NAMESPACES(Models[CHOOSE i \in 1..Len(Models) :
             /\ Models[i] \in t.mentions
             /\ \A j \in 1..(i - 1) : Models[j] \notin t.mentions])

NoDecision == [intent |-> Absent, vehicle |-> Absent, escalation |-> Absent, summary |-> Absent]
Decision(i, v, e, s) == [intent |-> i, vehicle |-> v, escalation |-> e, summary |-> s]

\* _fast_classify: NoDecision stands for the None it returns when unsure
FastClassify(t) ==
    IF t.exact # Null
    THEN Decision("vehicle_select", VEHICLE_NAMESPACES(t.exact), JFalse, "Selected")
    ELSE IF t.fast_kw THEN Decision("booking", DetectVehicle(t), JFalse, "Wants to book appointment")
    ELSE IF t.greeting THEN Decision("greeting", Null, JFalse, "Greeting")
    ELSE IF DetectVehicle(t) # Null /\ t.question
         THEN Decision("tech", DetectVehicle(t), JFalse, "Technical question")
    ELSE NoDecision

\* _fallback
Fallback(t) ==
    IF t.fb_kw THEN Decision("booking", DetectVehicle(t), JFalse, "Booking (fallback)")
    ELSE Decision("tech", DetectVehicle(t), JFalse, "General question (fallback)")

valid_intents == {"tech", "booking", "escalation", "greeting", "vehicle_select"}
valid_vehicles == Namespaces \cup {Null}
JList == "[list]"       \* a JSON array or object: an unhashable Python value

\* dict.setdefault(key, default)
SetDefault(v, default) == IF v = Absent THEN default ELSE v

\* _validate on a dict
ValidateNoOverride(result) ==
    LET i == SetDefault(result.intent, "tech")
        v == SetDefault(result.vehicle, Null)
        e == SetDefault(result.escalation, JFalse)
        s == SetDefault(result.summary, "")
    IN Decision(IF i \notin valid_intents THEN "tech" ELSE i,
                IF v \notin valid_vehicles THEN Null ELSE v, e, s)
Validate(result) ==
    LET i == SetDefault(result.intent, "tech")
        v == SetDefault(result.vehicle, Null)
        e == SetDefault(result.escalation, JFalse)
        s == SetDefault(result.summary, "")
        i2 == IF i \notin valid_intents THEN "tech" ELSE i
        v2 == IF v \notin valid_vehicles THEN Null ELSE v
    IN Decision(IF e = JTrue THEN "escalation" ELSE i2, v2, e, s)

\* `x not in <set>` raises TypeError when x is unhashable
ValidateRaises(result) ==
    SetDefault(result.intent, "tech") = JList \/ SetDefault(result.vehicle, Null) = JList

\* what the model call of classify can do
ModelReplies ==
    {[kind |-> "raise", exc |-> x, dict |-> NoDecision] : x \in {"KeyError", "JSONDecodeError", "Other"}}
    \cup {[kind |-> k, exc |-> "", dict |-> NoDecision] : k \in {"not_json", "json_other"}}
    \cup {[kind |-> "json_dict", exc |-> "", dict |-> Decision(i, v, e, s)] :
             i \in valid_intents \cup {"off_topic", "bogus", Null, Absent, JList},
             v \in {"civic-2025", "passport-2026", "bogus", Null, Absent, JList},
             e \in {JTrue, JFalse, JYes, Null, Absent},
             s \in {"s", Absent}}
NoReply == [kind |-> "none", exc |-> "", dict |-> NoDecision]

\* handle_message lines 104-176: the path a decision is dispatched to
Dispatch(d) ==
    IF d.intent = "escalation" \/ Truthy(d.escalation) THEN "escalation"
    ELSE IF d.intent = "booking" THEN "booking"
    ELSE IF d.intent = "vehicle_select" /\ Truthy(d.vehicle) THEN "vehicle_select"
    ELSE IF d.intent = "greeting" THEN "greeting"
    ELSE IF d.intent = "off_topic" THEN "off_topic"
    ELSE "tech"

ClsInit ==
    /\ user_text \in Texts
    /\ model_reply = NoReply
    /\ decision = NoDecision
    /\ c_outcome = "none"

ClsIdle ==
    /\ user_text = [exact |-> Null, mentions |-> {}, fast_kw |-> FALSE, fb_kw |-> FALSE,
                    greeting |-> FALSE, question |-> FALSE]
    /\ model_reply = NoReply
    /\ decision = NoDecision
    /\ c_outcome = "none"

\* classify, lines 74-78: the keyword fast path answers, no model call
ClassifyFast ==
    /\ c_outcome = "none"
    /\ FastClassify(user_text) # NoDecision
    /\ decision' = FastClassify(user_text)
    /\ c_outcome' = "fast"
    /\ UNCHANGED <<user_text, model_reply>>
    /\ ClsFrame

\* classify, lines 80-106: the model call and what follows it.  An exception of
\* a class named at line 100 that is raised before `raw` is bound makes the
\* handler at line 101 fail on raw[:200], and that error leaves classify.
ClassifySlow ==
    /\ c_outcome = "none"
    /\ FastClassify(user_text) = NoDecision
    /\ \E r \in ModelReplies :
          /\ model_reply' = r
          /\ CASE r.kind = "raise" /\ r.exc \in {"KeyError", "JSONDecodeError"} ->
                     decision' = NoDecision /\ c_outcome' = "raised"
               [] r.kind = "raise" /\ r.exc = "Other" ->
                     decision' = Fallback(user_text) /\ c_outcome' = "fallback"
               [] r.kind \in {"not_json", "json_other"} ->
                     decision' = Fallback(user_text) /\ c_outcome' = "fallback"
               [] r.kind = "json_dict" /\ ValidateRaises(r.dict) ->
                     decision' = Fallback(user_text) /\ c_outcome' = "fallback"
               [] r.kind = "json_dict" /\ ~ValidateRaises(r.dict) ->
                     decision' = Validate(r.dict) /\ c_outcome' = "llm"
    /\ UNCHANGED user_text
    /\ ClsFrame

ClsNext ==
    \/ ClassifyFast
    \/ ClassifySlow

\* ========================================================================
\* Query contextualization: TechAgent.contextualize_query
\* ========================================================================
MaxPairs == 2       \* question/answer pairs in the history (the handler keeps 3)

Utterances == {"reset it", "how do I reset the tire light", "any open recall?"}
Rewrites == {"how do I reset the tire pressure light", ""}

\* session["history"]: "User: ..." and "Assistant: ..." entries in pairs
Histories ==
    UNION {{h \in [1..(2 * k) -> [who : {"User", "Assistant"}, text : Utterances \cup {"answer"}]] :
              \A i \in 1..(2 * k) :
                 /\ h[i].who = (IF i % 2 = 1 THEN "User" ELSE "Assistant")
                 /\ h[i].text = "answer" <=> i % 2 = 0}
           : k \in 0..MaxPairs}

NoCtxResult == [kind |-> "none", query |-> ""]
CtxReturn(q) == [kind |-> "returned", query |-> q]
CtxRaised == [kind |-> "raised", query |-> ""]

CtxInit ==
    /\ history \in Histories
    /\ latest_query \in Utterances
    /\ ctx_result = NoCtxResult
    /\ ctx_calls = 0
    /\ ctx_outcome = "none"

CtxIdle ==
    /\ history = <<>>
    /\ latest_query = ""
    /\ ctx_result = NoCtxResult
    /\ ctx_calls = 0
    /\ ctx_outcome = "idle"

\* lines 63-64: if not history: return latest_query
ContextualizeEmptyRewrites ==
    /\ CtxFrame
    /\ ctx_outcome = "none"
    /\ history = <<>>
    /\ \E reformulated \in Rewrites \cup {latest_query} :
          /\ ctx_outcome' = "rewritten"
          /\ ctx_calls' = ctx_calls + 1
          /\ ctx_result' = CtxReturn(reformulated)
    /\ UNCHANGED <<history, latest_query>>
ContextualizeEmpty ==
    /\ CtxFrame
    /\ ctx_outcome = "none"
    /\ history = <<>>
    /\ ctx_result' = CtxReturn(latest_query)
    /\ ctx_outcome' = "short_circuit"
    /\ UNCHANGED <<history, latest_query, ctx_calls>>

\* lines 66-83: get_llm() and the chain are built before the try; chain.invoke
\* is inside it
ContextualizeWithHistory ==
    /\ CtxFrame
    /\ ctx_outcome = "none"
    /\ history # <<>>
    /\ \/ /\ ctx_outcome' = "get_llm_failed"
          /\ ctx_result' = CtxRaised
          /\ UNCHANGED ctx_calls
       \/ /\ ctx_outcome' = "invoke_failed"
          /\ ctx_calls' = ctx_calls + 1
          /\ ctx_result' = CtxReturn(latest_query)
       \/ \E reformulated \in Rewrites \cup {latest_query} :
             /\ ctx_outcome' = "rewritten"
             /\ ctx_calls' = ctx_calls + 1
             /\ ctx_result' = CtxReturn(reformulated)
    /\ UNCHANGED <<history, latest_query>>

CtxNext ==
    \/ ContextualizeEmpty
    \/ ContextualizeWithHistory

\* ========================================================================
\* Phone extraction: OrchestratorAgent.extract_phone
\* ========================================================================
MaxPieces == 2      \* pieces of a message

\* Strings are sequences of characters.  A message is a sequence of pieces: a
\* ten-digit number written "(954) 243-1238" (paren), "954.243.1238" (sep) or
\* "9542431238" (plain), a shorter number (short) or a word.
Digits == {"0", "1", "2", "3", "4", "5", "8", "9"}
Numbers == {<<"9", "5", "4", "2", "4", "3", "1", "2", "3", "8">>,
            <<"3", "0", "5", "5", "5", "5", "0", "1", "0", "0">>}
Pieces ==
    [form : {"paren", "sep", "plain"}, digits : Numbers]
    \cup {[form |-> "short", digits |-> <<"5", "5", "5", "0", "1", "0", "0">>],
          [form |-> "word", digits |-> <<>>]}

\* f"({digits[:3]}) {digits[3:6]}-{digits[6:]}"
FormatPhone(d) ==
    <<"(">> \o SubSeq(d, 1, Min2(3, Len(d))) \o <<")", " ">> \o SubSeq(d, 4, Min2(6, Len(d)))
        \o <<"-">> \o SubSeq(d, 7, Len(d))

\* the characters of a piece
PieceText(p) ==
    CASE p.form = "paren" -> FormatPhone(p.digits)
      [] p.form = "sep" -> SubSeq(p.digits, 1, 3) \o <<".">> \o SubSeq(p.digits, 4, 6)
                               \o <<".">> \o SubSeq(p.digits, 7, 10)
      [] p.form = "word" -> <<"w">>
      [] OTHER -> p.digits

\* re.search(pattern, user_text) for the three patterns, in order: the text of
\* the leftmost match, <<>> when there is none
PhonePatterns == <<"paren", "sep", "plain">>
SearchPattern(text, form) ==
    IF \E i \in 1..Len(text) : text[i].form = form
    THEN PieceText(text[CHOOSE i \in 1..Len(text) :
                           /\ text[i].form = form
                           /\ \A j \in 1..(i - 1) : text[j].form # form])
    ELSE <<>>

\* re.sub(r'\D', '', s)
IsDigit(c) == c \in Digits
DigitsOf(s) == SelectSeq(s, IsDigit)

\* the loop of lines 214-219: index of the first pattern whose match has ten
\* digits, 0 if none
RegexHit(text) ==
    IF \E n \in 1..3 : Len(DigitsOf(SearchPattern(text, PhonePatterns[n]))) = 10
    THEN CHOOSE n \in 1..3 :
            /\ Len(DigitsOf(SearchPattern(text, PhonePatterns[n]))) = 10
            /\ \A k \in 1..(n - 1) : Len(DigitsOf(SearchPattern(text, PhonePatterns[k]))) # 10
    ELSE 0

\* what the model of the fallback may answer, after .strip()
LlmPhoneReplies ==
    {FormatPhone(d) : d \in Numbers} \cup Numbers
    \cup {<<"NO_PHONE">>, <<"w", " ", "NO_PHONE">>, <<"w">>, <<>>}

NoPhoneResult == [kind |-> "none", text |-> <<>>]
PhoneNone == [kind |-> "None", text |-> <<>>]
PhoneStr(s) == [kind |-> "str", text |-> s]

\* return None if "NO_PHONE" in result else result
LlmPhoneResult(result) ==
    IF \E i \in 1..Len(result) : result[i] = "NO_PHONE" THEN PhoneNone ELSE PhoneStr(result)

PhoneInit ==
    /\ phone_text \in SeqsUpTo(Pieces, MaxPieces)
    /\ phone_result = NoPhoneResult
    /\ phone_calls = 0
    /\ phone_outcome = "none"

PhoneIdle ==
    /\ phone_text = <<>>
    /\ phone_result = NoPhoneResult
    /\ phone_calls = 0
    /\ phone_outcome = "idle"

\* lines 210-219: a pattern yields ten digits
ExtractPhoneRegex ==
    /\ PhoneFrame
    /\ phone_outcome = "none"
    /\ RegexHit(phone_text) # 0
    /\ phone_result' =
          PhoneStr(FormatPhone(DigitsOf(SearchPattern(phone_text, PhonePatterns[RegexHit(phone_text)]))))
    /\ phone_outcome' = "regex"
    /\ UNCHANGED <<phone_text, phone_calls>>

\* lines 221-232: the model fallback
ExtractPhoneLlm ==
    /\ PhoneFrame
    /\ phone_outcome = "none"
    /\ RegexHit(phone_text) = 0
    /\ \/ \E result \in LlmPhoneReplies :
             /\ phone_calls' = phone_calls + 1
             /\ phone_result' = LlmPhoneResult(result)
             /\ phone_outcome' = "llm"
       \/ /\ phone_calls' \in {phone_calls, phone_calls + 1}
          /\ phone_result' = PhoneNone
          /\ phone_outcome' = "llm_failed"
    /\ UNCHANGED phone_text

PhoneNext ==
    \/ ExtractPhoneRegex
    \/ ExtractPhoneLlm

\* ========================================================================
\* Message handling: handle_message with the booking and onboarding handlers
\* ========================================================================
MaxUpdates == 3      \* updates (messages and commands) handled

Users == {"u1", "u2"}
BlockTargets == {"u2"}      \* the ids the advisor blocks

RATE_LIMIT_MAX == 10

ONBOARD_NONE == "none"
ONBOARD_AWAITING_PHONE == "phone"
ONBOARD_AWAITING_VIN == "vin"

\* d[k] = v and del d[k] on a dict
PutAll(d, k, v) == [x \in DOMAIN d \cup {k} |-> v]
Put(d, k, v) == [x \in DOMAIN d \cup {k} |-> IF x = k THEN v ELSE d[x]]
Del(d, k) == [x \in DOMAIN d \ {k} |-> d[x]]
NoEntries == [x \in {} |-> Null]

\* init_session; history is the number of entries of session["history"]
init_session ==
    [namespace |-> Null, carfax_namespace |-> Null, vin |-> Null, vehicle_label |-> Null,
     phone |-> Null, customer_name |-> Null, language |-> "en", history |-> 0,
     pending_booking |-> FALSE, onboarding |-> ONBOARD_NONE]

\* What a customer lookup returns: no row, or a row with its name, with or
\* without a vehicle, whose Carfax is ingested or not
NoCustomer == [found |-> FALSE, name |-> Null, has_vehicle |-> FALSE, ingested |-> FALSE]
Customers ==
    {c \in [found : {TRUE}, name : {Null, "n1"}, has_vehicle : BOOLEAN, ingested : BOOLEAN] :
        /\ c.ingested => c.has_vehicle
        /\ c.has_vehicle <=> c.name # Null}

\* vehicles.carfax_namespace of the customer's vehicle whose manual_namespace
\* is `manual`
CarfaxFor(manual) ==
    CASE manual = "civic-2025" -> "carfax-V1"
      [] manual = "passport-2026" -> "carfax-V2"
      [] OTHER -> "carfax-V3"

\* load_session_from_profile
load_session_from_profile(customer) ==
    IF customer.has_vehicle
    THEN [init_session EXCEPT !.phone = "p1", !.customer_name = customer.name,
                              !.namespace = "civic-2025",
                              !.carfax_namespace =
                                  IF customer.ingested THEN CarfaxFor("civic-2025") ELSE Null,
                              !.vin = "V1", !.vehicle_label = "L1"]
    ELSE [init_session EXCEPT !.phone = "p1", !.customer_name = customer.name]

\* get_or_init_session: the session it returns (and stores under user_id)
get_or_init_session(u, customer) ==
    IF u \in DOMAIN user_sessions THEN user_sessions[u]
    ELSE IF customer.found /\ customer.has_vehicle THEN load_session_from_profile(customer)
    ELSE [init_session EXCEPT !.onboarding = ONBOARD_AWAITING_PHONE]

\* What the handlers look for in a message: a cancel word, an affirmative, a
\* phone number, a VIN, a which-vehicle question, none of them
TextKinds == {"cancel", "yes", "phone", "vin", "which car", "other"}

\* start_appointment lines 19-31: the new record, pre-filled from the session;
\* n_saved is history: the save_appointment calls made for this record
NewRecord(session) ==
    [fields |-> [k \in Keys |->
                    CASE k = "name" /\ Truthy(session.customer_name) -> session.customer_name
                      [] k = "phone" /\ Truthy(session.phone) -> session.phone
                      [] k = "vehicle" /\ Truthy(session.vehicle_label) -> session.vehicle_label
                      [] OTHER -> Null],
     n_messages |-> 0, n_saved |-> 0]

\* booking_agent.run as the handlers see it: the call fails, or the model
\* output carries a well-formed block with this payload
HandlerPayloads ==
    {JsonPayload(Keys, "v1", JTrue), JsonPayload({"service_type"}, "v1", JFalse),
     JsonPayload({}, "v1", JTrue)}
BookingOutcomes ==
    {[ok |-> FALSE, payload |-> EmptyDict]} \cup [ok : {TRUE}, payload : HandlerPayloads]

TrimLen(n) == IF n > MAX_MESSAGES THEN KEEP_MESSAGES ELSE n

RunRecord(rec, out) ==
    IF out.ok
    THEN [fields |-> MergeFields(rec.fields, Extracted(out.payload)),
          n_messages |-> TrimLen(rec.n_messages + 2), n_saved |-> rec.n_saved]
    ELSE [fields |-> rec.fields, n_messages |-> rec.n_messages + 1, n_saved |-> rec.n_saved]
RunComplete(out) == IF out.ok THEN IsComplete(Extracted(out.payload)) ELSE JFalse

\* notify_advisor lines 34-49: with an advisor configured the message is built
\* with appointment_info['name'] ... ['preferred_time'], a KeyError when a field
\* was never set
NotifyRaises(rec) == advisor_set /\ \E k \in Keys : rec.fields[k] = Null

\* how the turn ends: not complete, finalised, or the exception of
\* notify_advisor leaves _finalize_appointment before its del
Finalization(rec, complete) ==
    IF ~Truthy(complete) THEN "none"
    ELSE IF NotifyRaises(rec) THEN "notify_raised"
    ELSE "done"

\* booking_agent.run on the record of u, the reply, and _finalize_appointment
\* when the turn is complete (booking.py lines 34-39, 69-74, 94-107)
TurnEffect(u, rec, out, path) ==
    LET rec2 == RunRecord(rec, out)
        fin == Finalization(rec2, RunComplete(out))
    IN /\ appointment_data' =
             CASE fin = "done" -> Del(appointment_data, u)
               [] fin = "notify_raised" ->
                      Put(appointment_data, u, [rec2 EXCEPT !.n_saved = @ + 1])
               [] OTHER -> Put(appointment_data, u, rec2)
       /\ saved' = IF fin = "none" THEN saved ELSE [saved EXCEPT ![u] = @ + 1]
       /\ last' = [user |-> u, path |-> path, fin |-> fin]

NoBooking(u, path) ==
    /\ last' = [user |-> u, path |-> path, fin |-> "none"]
    /\ UNCHANGED <<appointment_data, saved>>

\* handle_booking_message lines 53-76, for a user with a record
BookingMessage(u, text) ==
    /\ UNCHANGED user_sessions
    /\ IF text = "cancel"
       THEN /\ appointment_data' = Del(appointment_data, u)
            /\ last' = [user |-> u, path |-> "booking_cancel", fin |-> "none"]
            /\ UNCHANGED saved
       ELSE \E out \in BookingOutcomes : TurnEffect(u, appointment_data[u], out, "booking_turn")

\* handle_onboarding_phone: always handles the message
OnboardPhone(u, session, text) ==
    /\ NoBooking(u, "onboard_phone")
    /\ IF text # "phone"
       THEN user_sessions' = Put(user_sessions, u, session)
       ELSE \E csv_result \in BOOLEAN, customer \in Customers :
               LET name == IF csv_result THEN "n1" ELSE customer.name
                   s2 == [session EXCEPT !.phone = "p1", !.customer_name = name]
               IN IF csv_result
                  THEN user_sessions' =
                          Put(user_sessions, u, [s2 EXCEPT !.onboarding = ONBOARD_AWAITING_VIN])
                  ELSE IF customer.has_vehicle
                  THEN user_sessions' = Put(user_sessions, u, load_session_from_profile(customer))
                  ELSE user_sessions' =
                          Put(user_sessions, u, [s2 EXCEPT !.onboarding = ONBOARD_AWAITING_VIN])

\* decode_vin: None, or the decoded vehicle with its manual namespace
Decoded == {[ok |-> FALSE, manual_namespace |-> Null]}
           \cup [ok : {TRUE}, manual_namespace : {Null, "passport-2026"}]

\* handle_onboarding_vin: always handles the message
OnboardVin(u, session, text) ==
    /\ NoBooking(u, "onboard_vin")
    /\ IF text # "vin"
       THEN user_sessions' = Put(user_sessions, u, session)
       ELSE \E decoded \in Decoded, added \in BOOLEAN :
               IF ~decoded.ok \/ ~added
               THEN user_sessions' = Put(user_sessions, u, session)
               ELSE user_sessions' = Put(user_sessions, u,
                       [session EXCEPT !.vin = "V1",
                                       !.namespace = IF decoded.manual_namespace = Null
                                                     THEN "civic-2025"
                                                     ELSE decoded.manual_namespace,
                                       !.carfax_namespace = Null,
                                       !.vehicle_label = "L1",
                                       !.onboarding = ONBOARD_NONE])

\* Decisions classify hands to the dispatch, each with the language key the
\* model reply may carry.  Every decision is in the range of _fast_classify,
\* _fallback or _validate; a which-vehicle question and the one-word messages
\* meant for the other handlers are taken to be classified as general questions.
HandlerDecisions(text) ==
    IF text = "other"
    THEN {<<Decision("tech", Null, JFalse, "s"), Absent>>,
          <<Decision("tech", "passport-2026", JFalse, "s"), Absent>>,
          <<Decision("escalation", Null, JTrue, "s"), Absent>>,
          <<Decision("booking", Null, JFalse, "s"), Absent>>,
          <<Decision("greeting", Null, JFalse, "s"), "es">>,
          <<Decision("vehicle_select", "civic-2025", JFalse, "s"), Absent>>,
          <<Decision("vehicle_select", Null, JFalse, "s"), Absent>>}
    ELSE {<<Decision("tech", Null, JFalse, "s"), Absent>>}

\* get_customer_vehicles: no vehicle on the selected manual, or one, with its
\* Carfax ingested or not
VehicleRows == {[found |-> FALSE, ingested |-> FALSE]} \cup [found : {TRUE}, ingested : BOOLEAN]

\* messages.py lines 124-144
VehicleSelect(session, vehicle, row) ==
    LET s2 == [session EXCEPT !.namespace = vehicle, !.history = 0,
                              !.carfax_namespace = Null, !.vin = Null]
    IN IF Truthy(session.phone) /\ row.found
       THEN [s2 EXCEPT !.carfax_namespace = IF row.ingested THEN CarfaxFor(vehicle) ELSE Null,
                       !.vin = "V1", !.vehicle_label = "L1"]
       ELSE s2

\* what tech_agent.run can return for this session
TechAnswers(session) ==
    {ErrorText} \cup LlmAnswers
    \cup (IF session.carfax_namespace # Null THEN {NoRecallMessage} ELSE {})

\* messages.py lines 219-245
AfterAnswer(session, a) ==
    [session EXCEPT !.pending_booking = IF a.no_answer THEN TRUE ELSE a.visit,
                    !.history = Min2(@ + 2, 6)]

\* messages.py lines 219-237: what the handler sends for the text run returned
HandlerReply(a) == IF a.no_answer THEN "no_answer_offer" ELSE "clean_answer"

\* messages.py lines 176-249: the default path
TechPath(u, session, d, text) ==
    LET s2 == IF Truthy(d.vehicle) THEN [session EXCEPT !.namespace = d.vehicle] ELSE session
    IN IF text = "which car"
       THEN user_sessions' = Put(user_sessions, u, s2) /\ NoBooking(u, "vehicle_ask")
       ELSE IF Truthy(s2.namespace)
       THEN /\ \E a \in TechAnswers(s2) : user_sessions' = Put(user_sessions, u, AfterAnswer(s2, a))
            /\ NoBooking(u, "tech")
       ELSE user_sessions' = Put(user_sessions, u, s2) /\ NoBooking(u, "ask_vehicle")

\* messages.py lines 89-176: classify, language update, dispatch.  classify can
\* raise (see ClassifySlow); the exception then leaves handle_message.
Classified(u, session, text) ==
    \/ /\ text = "other"
       /\ user_sessions' = Put(user_sessions, u, session)
       /\ NoBooking(u, "classify_raised")
    \/ \E dl \in HandlerDecisions(text) :
          LET d == dl[1]
              detected_lang == dl[2]
              s2 == IF Truthy(detected_lang) THEN [session EXCEPT !.language = detected_lang]
                    ELSE session
              path == Dispatch(d)
          IN CASE path \in {"escalation", "greeting", "off_topic"} ->
                      user_sessions' = Put(user_sessions, u, s2) /\ NoBooking(u, path)
               [] path = "booking" ->
                      /\ user_sessions' = Put(user_sessions, u, s2)
                      /\ \E out \in BookingOutcomes : TurnEffect(u, NewRecord(s2), out, "booking")
               [] path = "vehicle_select" ->
                      /\ \E row \in VehicleRows :
                            user_sessions' = Put(user_sessions, u, VehicleSelect(s2, d.vehicle, row))
                      /\ NoBooking(u, "vehicle_select")
               [] path = "tech" -> TechPath(u, s2, d, text)

\* messages.py lines 54-249, for a user without a record
RoutedMessage(u, text) ==
    \E customer \in IF u \in DOMAIN user_sessions THEN {NoCustomer} ELSE Customers \cup {NoCustomer} :
       LET s0 == get_or_init_session(u, customer)
           s1 == [s0 EXCEPT !.pending_booking = FALSE]
       IN IF s0.pending_booking /\ text = "yes"
          THEN /\ user_sessions' = Put(user_sessions, u, s1)
               /\ \E out \in BookingOutcomes : TurnEffect(u, NewRecord(s1), out, "pending_yes")
          ELSE IF s1.onboarding = ONBOARD_AWAITING_PHONE THEN OnboardPhone(u, s1, text)
          ELSE IF s1.onboarding = ONBOARD_AWAITING_VIN THEN OnboardVin(u, s1, text)
          ELSE IF ~Truthy(s1.phone)
          THEN /\ user_sessions' =
                     Put(user_sessions, u, [s1 EXCEPT !.onboarding = ONBOARD_AWAITING_PHONE])
               /\ NoBooking(u, "need_phone")
          ELSE Classified(u, s1, text)

\* handle_message
HandleMessageNoBookingCheck(u) ==
    /\ HdlFrame
    /\ updates < MaxUpdates
    /\ \E text \in TextKinds :
          IF u \in blocked_users
          THEN /\ NoBooking(u, "blocked")
               /\ UNCHANGED <<user_sessions, rate_limit>>
          ELSE IF rate_limit[u] >= RATE_LIMIT_MAX
          THEN /\ NoBooking(u, "throttled")
               /\ UNCHANGED <<user_sessions, rate_limit>>
          ELSE /\ rate_limit' = [rate_limit EXCEPT ![u] = @ + 1]
               /\ RoutedMessage(u, text)
    /\ UNCHANGED <<blocked_users, advisor_set>>
    /\ updates' = updates + 1
HandleMessage(u) ==
    /\ HdlFrame
    /\ updates < MaxUpdates
    /\ \E text \in TextKinds :
          IF u \in blocked_users
          THEN /\ NoBooking(u, "blocked")
               /\ UNCHANGED <<user_sessions, rate_limit>>
          ELSE IF rate_limit[u] >= RATE_LIMIT_MAX
          THEN /\ NoBooking(u, "throttled")
               /\ UNCHANGED <<user_sessions, rate_limit>>
          ELSE /\ rate_limit' = [rate_limit EXCEPT ![u] = @ + 1]
               /\ IF u \in DOMAIN appointment_data
                  THEN BookingMessage(u, text)
                  ELSE RoutedMessage(u, text)
    /\ UNCHANGED <<blocked_users, advisor_set>>
    /\ updates' = updates + 1

\* handle_photo (photos.py lines 62-188): block and rate-limit checks, the
\* onboarding nudge, then the download and the vision call, either of which
\* may fail; no look at appointment_data anywhere
HandlePhoto(u) ==
    /\ HdlFrame
    /\ updates < MaxUpdates
    /\ IF u \in blocked_users
       THEN /\ NoBooking(u, "blocked")
            /\ UNCHANGED <<user_sessions, rate_limit>>
       ELSE IF rate_limit[u] >= RATE_LIMIT_MAX
       THEN /\ NoBooking(u, "throttled")
            /\ UNCHANGED <<user_sessions, rate_limit>>
       ELSE /\ rate_limit' = [rate_limit EXCEPT ![u] = @ + 1]
            /\ \E customer \in IF u \in DOMAIN user_sessions THEN {NoCustomer}
                                ELSE Customers \cup {NoCustomer} :
                  LET session == get_or_init_session(u, customer) IN
                  IF session.onboarding \in {ONBOARD_AWAITING_PHONE, ONBOARD_AWAITING_VIN}
                  THEN /\ user_sessions' = Put(user_sessions, u, session)
                       /\ NoBooking(u, "photo_onboarding")
                  ELSE \/ /\ user_sessions' = Put(user_sessions, u, session)
                          /\ NoBooking(u, "photo_failed")
                       \/ \E suggests_visit \in BOOLEAN :
                             /\ user_sessions' = Put(user_sessions, u,
                                    [session EXCEPT !.pending_booking = suggests_visit,
                                                    !.history = Min2(@ + 2, 6)])
                             /\ NoBooking(u, "photo")
    /\ UNCHANGED <<blocked_users, advisor_set>>
    /\ updates' = updates + 1

\* cancel_appointment, the /cancel command
CancelCommand(u) ==
    /\ HdlFrame
    /\ updates < MaxUpdates
    /\ appointment_data' = Del(appointment_data, u)
    /\ last' = [user |-> u, path |-> "cancel_command", fin |-> "none"]
    /\ UNCHANGED <<user_sessions, saved, blocked_users, rate_limit, advisor_set>>
    /\ updates' = updates + 1

\* block_command, sent by the advisor
BlockCommand ==
    /\ HdlFrame
    /\ updates < MaxUpdates
    /\ advisor_set
    /\ \E target_id \in BlockTargets :
          /\ blocked_users' = blocked_users \cup {target_id}
          /\ last' = [user |-> target_id, path |-> "block_command", fin |-> "none"]
    /\ UNCHANGED <<user_sessions, appointment_data, saved, rate_limit, advisor_set>>
    /\ updates' = updates + 1

HdlInit ==
    /\ user_sessions = NoEntries
    /\ appointment_data = NoEntries
    /\ saved = [u \in Users |-> 0]
    /\ blocked_users = {}
    /\ rate_limit = [u \in Users |-> 0]
    /\ advisor_set \in BOOLEAN
    /\ updates = 0
    /\ last = [user |-> "", path |-> "none", fin |-> "none"]

HdlIdle ==
    /\ user_sessions = NoEntries
    /\ appointment_data = NoEntries
    /\ saved = [u \in Users |-> 0]
    /\ blocked_users = {}
    /\ rate_limit = [u \in Users |-> 0]
    /\ advisor_set = FALSE
    /\ updates = 0
    /\ last = [user |-> "", path |-> "idle", fin |-> "none"]

\* ========================================================================
\* Rate limiting: check_rate_limit
\* ========================================================================
MaxCalls == 12      \* check_rate_limit calls

RATE_LIMIT_WINDOW == 60

\* the values time.time() takes, in seconds
Instants == {0, 59, 60}

\* if now - ts < RATE_LIMIT_WINDOW
InWindow(t, ts) == t - ts < RATE_LIMIT_WINDOW

\* [ts for ts in _rate_limit[user_id] if now - ts < RATE_LIMIT_WINDOW]
Fresh(stamps, t) == SelectSeq(stamps, LAMBDA ts : InWindow(t, ts))

\* if len(_rate_limit[user_id]) >= RATE_LIMIT_MAX: return False
OverLimitAbove(stamps) == Len(stamps) > RATE_LIMIT_MAX
OverLimit(stamps) == Len(stamps) >= RATE_LIMIT_MAX

RlInit ==
    /\ rate_stamps = [u \in Users |-> <<>>]
    /\ now = 0
    /\ accepted = [u \in Users |-> <<>>]
    /\ rl_last = [user |-> "", ok |-> FALSE]
    /\ rl_calls = 0

RlIdle ==
    /\ rate_stamps = [u \in Users |-> <<>>]
    /\ now = 0
    /\ accepted = [u \in Users |-> <<>>]
    /\ rl_last = [user |-> "idle", ok |-> FALSE]
    /\ rl_calls = 0

\* check_rate_limit(user_id), at a time t not before the previous call's
CheckRateLimit(u) ==
    /\ RlFrame
    /\ rl_calls < MaxCalls
    /\ rl_calls' = rl_calls + 1
    /\ \E t \in {i \in Instants : i >= now} :
          LET kept == Fresh(rate_stamps[u], t) IN
          /\ now' = t
          /\ IF OverLimit(kept)
             THEN /\ rate_stamps' = [rate_stamps EXCEPT ![u] = kept]
                  /\ rl_last' = [user |-> u, ok |-> FALSE]
                  /\ UNCHANGED accepted
             ELSE /\ rate_stamps' = [rate_stamps EXCEPT ![u] = Append(kept, t)]
                  /\ rl_last' = [user |-> u, ok |-> TRUE]
                  /\ accepted' = [accepted EXCEPT ![u] = Append(@, t)]

RlNext == \E u \in Users : CheckRateLimit(u)

HdlNext ==
    \/ \E u \in Users : HandleMessage(u)
    \/ \E u \in Users : HandlePhoto(u)
    \/ \E u \in Users : CancelCommand(u)
    \/ BlockCommand

RetrNext ==
    \/ FastEmbed
    \/ FastQuery
    \/ Gate
    \/ GenerateQueries
    \/ ExpEmbed
    \/ ExpQuery
    \/ Finalize
    \/ RunAnswer

FastNext ==
    \/ FastEmbed
    \/ FastQueryWide
    \/ Gate

InitFastPath == RetrInit /\ BookIdle /\ ClsIdle /\ CtxIdle /\ PhoneIdle /\ HdlIdle /\ RlIdle

SpecFastPath == InitFastPath /\ [][FastNext]_vars

InitRepeat == RepeatInit /\ BookIdle /\ ClsIdle /\ CtxIdle /\ PhoneIdle /\ HdlIdle /\ RlIdle

SpecRepeat == InitRepeat /\ [][RetrNext]_vars

InitRetrieval == RetrInit /\ BookIdle /\ ClsIdle /\ CtxIdle /\ PhoneIdle /\ HdlIdle /\ RlIdle

SpecRetrieval == InitRetrieval /\ [][RetrNext]_vars

BookNext == BookingTurn

InitBooking == RetrIdle /\ BookInit /\ ClsIdle /\ CtxIdle /\ PhoneIdle /\ HdlIdle /\ RlIdle

SpecBooking == InitBooking /\ [][BookNext]_vars

ParseInit ==
    /\ appointment \in {[k \in Keys |-> Null],
                        [k \in Keys |-> IF k \in {"name", "vehicle"} THEN "v1" ELSE Null]}
    /\ messages = <<>>
    /\ turns = 0
    /\ turn = NoTurn

ParseNext == ParseTurn

InitParse == RetrIdle /\ ParseInit /\ ClsIdle /\ CtxIdle /\ PhoneIdle /\ HdlIdle /\ RlIdle

SpecParse == InitParse /\ [][ParseNext]_vars

LongNext == LongTurn

InitTranscript == RetrIdle /\ LongInit /\ ClsIdle /\ CtxIdle /\ PhoneIdle /\ HdlIdle /\ RlIdle

SpecTranscript == InitTranscript /\ [][LongNext]_vars

InitClassify == RetrIdle /\ BookIdle /\ ClsInit /\ CtxIdle /\ PhoneIdle /\ HdlIdle /\ RlIdle

SpecClassify == InitClassify /\ [][ClsNext]_vars

InitContext == RetrIdle /\ BookIdle /\ ClsIdle /\ CtxInit /\ PhoneIdle /\ HdlIdle /\ RlIdle

SpecContext == InitContext /\ [][CtxNext]_vars

InitPhone == RetrIdle /\ BookIdle /\ ClsIdle /\ CtxIdle /\ PhoneInit /\ HdlIdle /\ RlIdle

SpecPhone == InitPhone /\ [][PhoneNext]_vars

InitRateLimit == RetrIdle /\ BookIdle /\ ClsIdle /\ CtxIdle /\ PhoneIdle /\ HdlIdle /\ RlInit

SpecRateLimit == InitRateLimit /\ [][RlNext]_vars

InitHandler == RetrIdle /\ BookIdle /\ ClsIdle /\ CtxIdle /\ PhoneIdle /\ HdlInit /\ RlIdle

SpecHandler == InitHandler /\ [][HdlNext]_vars

\* ------------------------------------------------------------------------
\* Retrieval properties
\* ------------------------------------------------------------------------
ExpansionPcs == {"generate", "exp_embed", "exp_query", "finalize"}

\* C1: whenever the highest score of the merged fast-search matches is above
\* 0.65 the expansion path is never entered: no generate_search_queries model
\* call, no embed or index query beyond those of the fast search.
C1_FastHitSkipsExpansion ==
    fast_max > FAST_THRESHOLD =>
        /\ r_pc \notin ExpansionPcs
        /\ gen_calls = 0
        /\ n_queries = 0
        /\ embed_calls = 1
        /\ query_calls <= Len(namespaces_to_search)
        /\ unique_matches = <<>>
        /\ r_pc = "done" => r_result.kind = "context"

C1_Witness ==
    /\ r_pc = "done"
    /\ carfax_namespace
    /\ fast_max > FAST_THRESHOLD
    /\ query_calls = 2
    /\ r_result.kind = "context"

ExpansionFinished == r_pc = "done" /\ n_queries > 0

\* the best score among the matches of one namespace (0: none)
BestOf(matches, ns) ==
    SetMax({0} \cup {matches[i].score : i \in {j \in 1..Len(matches) : matches[j].ns = ns}})

\* C24: on the fast path the returned context is built from the (at most 5)
\* highest-scoring matches of the results merged over all searched namespaces,
\* in non-increasing score order; in particular, when the best score of the
\* primary namespace is at most 0.65 and that of the secondary namespace is
\* above 0.65, the fast path triggers and the best chunk of the secondary
\* namespace is part of the returned context.
C24_FastPathTopMerged ==
    [][r_pc = "gate" =>
          LET merged == IF Len(fast_results) = 2
                        THEN Tag(fast_results[1], "manual") \o Tag(fast_results[2], "carfax")
                        ELSE Tag(fast_results[1], "manual")
              out == r_result'.chunks
              Pos(c) == CHOOSE i \in 1..Len(merged) : merged[i].id = c
              Picked == {Pos(out[k]) : k \in 1..Len(out)}
          IN
          /\ r_pc' = "done" <=> \E i \in 1..Len(merged) : merged[i].score > FAST_THRESHOLD
          /\ r_pc' = "done" =>
                /\ r_result'.kind = "context"
                /\ Len(out) = Min2(FAST_TOP, Len(merged))
                /\ \A k \in 1..Len(out) : \E i \in 1..Len(merged) : merged[i].id = out[k]
                /\ \A k, l \in 1..Len(out) : out[k] = out[l] => k = l
                /\ \A k \in 1..(Len(out) - 1) :
                      merged[Pos(out[k])].score >= merged[Pos(out[k + 1])].score
                /\ \A i \in (1..Len(merged)) \ Picked, k \in 1..Len(out) :
                      merged[i].score <= merged[Pos(out[k])].score
          /\ (/\ BestOf(merged, "manual") <= FAST_THRESHOLD
              /\ BestOf(merged, "carfax") > FAST_THRESHOLD) =>
                /\ r_pc' = "done"
                /\ \E i \in 1..Len(merged), k \in 1..Len(out) :
                      /\ merged[i].ns = "carfax"
                      /\ merged[i].score = BestOf(merged, "carfax")
                      /\ out[k] = merged[i].id]_vars

C24_Witness ==
    /\ r_pc = "done"
    /\ carfax_namespace
    /\ Len(all_matches) = 2 * MaxFastMatches
    /\ Len(all_matches) > FAST_TOP
    /\ Len(r_result.chunks) = FAST_TOP
    /\ BestOf(all_matches, "manual") = FAST_THRESHOLD
    /\ BestOf(all_matches, "carfax") = 66
    /\ r_result.chunks[1] = "x3"

\* C2 (as stated): when no match survives expansion and deduplication the
\* result is exactly NO_ANSWER_FOUND.
C2_EmptyGivesNoAnswer ==
    (ExpansionFinished /\ unique_matches = <<>>) => r_result = Sentinel(NO_ANSWER_FOUND)

\* C2 (amended): when no match survives expansion and deduplication the result
\* is a sentinel, never a context or an exception: NO_RECALL_FOUND when the
\* query is a recall question and a Carfax namespace was given, and
\* NO_ANSWER_FOUND in every other case.
C2_EmptyGivesSentinel ==
    (ExpansionFinished /\ unique_matches = <<>>) =>
        /\ r_result.kind = "sentinel"
        /\ r_result.chunks = <<>>
        /\ (is_recall_q /\ carfax_namespace) => r_result.sentinel = NO_RECALL_FOUND
        /\ ~(is_recall_q /\ carfax_namespace) => r_result.sentinel = NO_ANSWER_FOUND

C2_Witness ==
    /\ ExpansionFinished
    /\ unique_matches = <<>>
    /\ is_recall_q
    /\ ~carfax_namespace
    /\ query_calls >= 2
    /\ r_result = Sentinel(NO_ANSWER_FOUND)

\* C3: on the expansion path the entry kept for an id carries the maximum of
\* all scores the (query variation, namespace) searches returned for that id,
\* after every search and whatever order the scores arrived in.
C3_DedupKeepsMax ==
    \A c \in ChunkIds :
        LET i == IndexOfId(unique_matches, c) IN
        /\ (seen[c] = {}) <=> (i = 0)
        /\ i # 0 => unique_matches[i].score = SetMax(seen[c])
        /\ \A j, k \in 1..Len(unique_matches) :
               unique_matches[j].id = unique_matches[k].id => j = k

C3_Witness ==
    /\ ExpansionFinished
    /\ n_queries >= 2
    /\ carfax_namespace
    /\ \E c \in ChunkIds :
          /\ Cardinality(seen[c]) >= 3
          /\ unique_matches[IndexOfId(unique_matches, c)].score = 66
          /\ unique_matches[1].id # c

\* ------------------------------------------------------------------------
\* Booking properties
\* ------------------------------------------------------------------------
ThisTurn == turns' = turns + 1

\* C4: whenever run returns completion = true, all six fields of the booking
\* record are non-null.
C4_CompleteImpliesAllFields ==
    turn.is_complete = JTrue => \A k \in Keys : appointment[k] # Null

\* C5: across booking turns a field that holds a non-null value is never reset
\* to null or to the placeholder "null": it keeps its value or takes another
\* non-null extracted value.
C5_FieldNeverReset ==
    [][\A k \in Keys :
          appointment[k] # Null =>
              /\ appointment'[k] \notin {Null, NullStr, EmptyStr, Absent}
              /\ appointment'[k] # appointment[k] =>
                     (ThisTurn /\ turn'.outcome = "ok" /\ appointment'[k] \in FieldValues)]_vars

C5_Witness ==
    /\ turns = 2
    /\ turn.outcome = "ok"
    /\ turn.kept
    /\ turn.replaced
    /\ appointment["name"] = "v2"
    /\ appointment["phone"] = "v1"

\* C6: a turn whose extraction has all six fields null leaves the six field
\* values of the record exactly as they were.
C6_AllNullIsNoOp ==
    [][(ThisTurn /\ turn'.outcome = "ok" /\ turn'.all_null) => appointment' = appointment]_vars

C6_Witness ==
    /\ turns = 2
    /\ turn.outcome = "ok"
    /\ turn.all_null
    /\ turn.is_complete = JFalse
    /\ appointment["vehicle"] = "v1"
    /\ appointment["preferred_time"] = "v2"
    /\ appointment["preferred_date"] = Null

\* C7: when the model call fails, run returns the error reply with
\* completion = false and the record, its six fields and its transcript, is
\* what it was before the turn.
C7_FailureLeavesRecord ==
    [][(ThisTurn /\ turn'.outcome = "error") =>
          /\ turn'.reply = ErrorReply
          /\ turn'.is_complete = JFalse
          /\ appointment' = appointment
          /\ messages' = messages]_vars

\* the [BOOKING_DATA] block of the last model output
HasBlock == BlockMatches(turn.raw) # {}
BlockIsJson ==
    LET m == BlockMatch(turn.raw) IN m[2] = m[3] /\ turn.payload.valid
BeforeBlock == Strip(SubSeq(turn.raw, 1, BlockMatch(turn.raw)[1] - 1))
\* a bare object that mentions "complete" and parses
HasBareJson == FallbackMatch(turn.raw, turn.payload) # 0 /\ turn.payload.valid

C22_TranscriptBounded ==
    [][ThisTurn =>
          LET n == Len(messages') IN
          /\ n <= MAX_MESSAGES
          /\ \E j \in 1..2, k \in 0..Len(messages) :
                /\ n = Len(messages) - k + j
                /\ \A i \in 1..(n - j) : messages'[i] = messages[k + i]
                /\ \A i \in (n - j + 1)..n : messages'[i].n = turns']_vars

\* C18: if after the merge of a successful turn all six fields of the record
\* are non-null, that turn returns completion = true, whatever completion value
\* the model reported.
C18_AllFieldsImpliesComplete ==
    (turn.outcome = "ok" /\ \A k \in Keys : appointment[k] # Null) =>
        turn.is_complete = JTrue

\* ------------------------------------------------------------------------
\* Classification properties
\* ------------------------------------------------------------------------
Returned == c_outcome \in {"fast", "llm", "fallback"}

\* C9: every decision classify returns with escalation true has intent
\* "escalation", whatever intent the model reported, and an escalation decision
\* is dispatched to the escalation path only.
C9_EscalationWins ==
    Returned =>
        /\ decision.escalation = JTrue => decision.intent = "escalation"
        /\ (decision.escalation = JTrue \/ decision.intent = "escalation") =>
               Dispatch(decision) = "escalation"

C9_Witness ==
    /\ c_outcome = "llm"
    /\ model_reply.dict.intent = "booking"
    /\ model_reply.dict.escalation = JTrue
    /\ decision.intent = "escalation"
    /\ Dispatch(decision) = "escalation"

\* C10: classify never raises; it returns a decision with all four keys,
\* intent in the allowed set, vehicle a known namespace or null, and escalation
\* a boolean.
C10_AlwaysValidDecision ==
    c_outcome # "none" =>
        /\ c_outcome # "raised"
        /\ \A k \in {"intent", "vehicle", "escalation", "summary"} : decision[k] # Absent
        /\ decision.intent \in valid_intents \cup {"off_topic"}
        /\ decision.vehicle \in Namespaces \cup {Null}
        /\ decision.escalation \in {JTrue, JFalse}

C12_NamespaceFailureNotFatal ==
    (carfax_namespace /\ query_calls >= 2) => r_result.error # "index_query"

\* C13: if every gateway call of a retrieval fails (the embedding fails, or no
\* namespace could be queried), what the caller sees is the NO_ANSWER sentinel:
\* not an exception and not the generic error text.
C13_TotalFailureGivesNoAnswer ==
    (\/ r_result.error = "embed_query" /\ embed_calls = 1
     \/ r_result.error = "index_query" /\ query_calls = 1) =>
        /\ r_result.kind # "raised"
        /\ r_pc = "answered" => (answer.no_answer /\ answer.kind # "error_text")

\* C21: whenever retrieval yields the NO_ANSWER sentinel for a tech question the
\* message handler sends the no-answer reply that offers an appointment and
\* sets pending_booking, never the generic error reply and never an answer the
\* model composed, whatever the answer-synthesis model call does.
C21_NoAnswerIsDistinguishable ==
    (r_pc = "answered" /\ r_result = Sentinel(NO_ANSWER_FOUND)) =>
        /\ answer.kind # "error_text"
        /\ HandlerReply(answer) = "no_answer_offer"
        /\ AfterAnswer(init_session, answer).pending_booking

BuildContextReturned == r_pc \in {"done", "answered"} /\ r_result.kind # "raised"

SeenScores == UNION {seen[c] : c \in ChunkIds}

\* C16: on the expansion path build_context returns the concatenated chunk
\* text if and only if at least one match survives deduplication and the best
\* surviving score is at least 0.50 (exactly 0.50 is accepted; a fast-search
\* best of exactly 0.65 is not a fast hit and takes the expansion path);
\* otherwise it returns a sentinel and forwards no chunk text.
C16_ContextIffThreshold ==
    BuildContextReturned =>
        /\ fast_max <= FAST_THRESHOLD => n_queries > 0
        /\ n_queries > 0 =>
              /\ r_result.kind = "context" <=>
                    (SeenScores # {} /\ SetMax(SeenScores) >= LOW_THRESHOLD)
              /\ r_result.kind = "context" =>
                    {r_result.chunks[i] : i \in 1..Len(r_result.chunks)}
                        = {c \in ChunkIds : seen[c] # {}}
              /\ r_result.kind # "context" =>
                    /\ r_result.kind = "sentinel"
                    /\ r_result.sentinel \in {NO_ANSWER_FOUND, NO_RECALL_FOUND}
                    /\ r_result.chunks = <<>>

C16_Witness ==
    /\ r_pc = "done"
    /\ fast_max = FAST_THRESHOLD
    /\ n_queries > 0
    /\ SetMax(SeenScores \cup {0}) = LOW_THRESHOLD
    /\ r_result.kind = "context"
    /\ Len(r_result.chunks) = 2

\* ------------------------------------------------------------------------
\* Contextualization properties
\* ------------------------------------------------------------------------
\* C14: if the rewrite model call fails for a non-empty history,
\* contextualize_query returns the latest utterance unchanged and never raises
\* to its caller, whatever step of obtaining or invoking the model fails.
C14_RewriteFailureFallsBack ==
    (history # <<>> /\ ctx_outcome \in {"get_llm_failed", "invoke_failed"}) =>
        ctx_result = CtxReturn(latest_query)

\* C23: for every utterance, when the conversation history is empty
\* contextualize_query returns the utterance unchanged and makes no model call.
C23_EmptyHistoryShortCircuits ==
    (history = <<>> /\ ctx_outcome \notin {"none", "idle"}) =>
        /\ ctx_outcome = "short_circuit"
        /\ ctx_result.kind = "returned"
        /\ ctx_result.query = latest_query
        /\ ctx_calls = 0

C23_Witness ==
    /\ history = <<>>
    /\ latest_query = "reset it"
    /\ ctx_outcome = "short_circuit"
    /\ ctx_result.query = "reset it"

\* ------------------------------------------------------------------------
\* Phone extraction properties
\* ------------------------------------------------------------------------
\* the exact form (XXX) XXX-XXXX
IsPhoneForm(s) ==
    /\ Len(s) = 14
    /\ s[1] = "(" /\ s[5] = ")" /\ s[6] = " " /\ s[10] = "-"
    /\ \A i \in {2, 3, 4, 7, 8, 9, 11, 12, 13, 14} : IsDigit(s[i])

\* C19: for every input and every model reply extract_phone returns null or a
\* string of the exact form (XXX) XXX-XXXX with ten digits, and the model is
\* consulted only when none of the patterns yields a ten-digit match.
C19_PhoneFormOrNull ==
    phone_outcome \notin {"none", "idle"} =>
        /\ phone_result = PhoneNone \/ (phone_result.kind = "str" /\ IsPhoneForm(phone_result.text))
        /\ phone_calls > 0 => RegexHit(phone_text) = 0

\* ------------------------------------------------------------------------
\* Message handling properties
\* ------------------------------------------------------------------------
Handled == updates' = updates + 1
HasRecord(u) == u \in DOMAIN appointment_data
StartPaths == {"booking", "pending_yes"}
TurnPaths == StartPaths \cup {"booking_turn"}
CancelPaths == {"booking_cancel", "cancel_command"}
\* updates that are not text messages, and text messages dropped by the block
\* and rate-limit checks
CommandPaths == {"cancel_command", "block_command"}
PhotoPaths == {"photo", "photo_failed", "photo_onboarding"}
DroppedPaths == {"blocked", "throttled"}

\* C17: a booking record exists in appointment_data exactly from the message
\* that starts the booking until the first turn that returns completion = true
\* or the first cancel: after a complete turn the record has been handed to
\* save_appointment and removed, after a cancel it has been removed without
\* being saved, and the user's next message is not routed to the booking agent.
C17_RecordLifecycle ==
    [][Handled =>
        LET u == last'.user IN
        /\ (last'.path \in TurnPaths /\ last'.fin # "none") =>
              (u \notin DOMAIN appointment_data' /\ saved'[u] = saved[u] + 1)
        /\ last'.path \in CancelPaths =>
              (u \notin DOMAIN appointment_data' /\ saved'[u] = saved[u])
        /\ (last'.path \in TurnPaths /\ last'.fin = "none") =>
              (u \in DOMAIN appointment_data' /\ saved'[u] = saved[u])
        /\ last'.path \in {"booking_turn", "booking_cancel"} <=>
              (HasRecord(u) /\ last'.path \notin DroppedPaths \cup CommandPaths \cup PhotoPaths)
        /\ \A v \in Users :
              (v \in DOMAIN appointment_data' /\ ~HasRecord(v)) =>
                  (v = u /\ last'.path \in StartPaths)]_vars

\* C20: handling a text message of user A, on any path of handle_message,
\* leaves user_sessions[B] and appointment_data[B] unchanged for every other
\* user B.
C20_OtherUsersUntouched ==
    [][(Handled /\ last'.path \notin CommandPaths) =>
          \A b \in Users \ {last'.user} :
             /\ b \in DOMAIN user_sessions' <=> b \in DOMAIN user_sessions
             /\ b \in DOMAIN user_sessions => user_sessions'[b] = user_sessions[b]
             /\ b \in DOMAIN appointment_data' <=> b \in DOMAIN appointment_data
             /\ b \in DOMAIN appointment_data => appointment_data'[b] = appointment_data[b]]_vars

C20_Witness ==
    /\ last.user = "u1"
    /\ last.path = "tech"
    /\ "u1" \in DOMAIN user_sessions /\ user_sessions["u1"].pending_booking
    /\ "u2" \in DOMAIN user_sessions /\ user_sessions["u2"].phone = "p1"
    /\ "u2" \in DOMAIN appointment_data
    /\ appointment_data["u2"].fields["service_type"] = "v1"

\* the paths on which orchestrator.classify was invoked
ClassifyPaths == {"classify_raised", "escalation", "greeting", "off_topic", "booking",
                  "vehicle_select", "vehicle_ask", "tech", "ask_vehicle"}
BookingFlowPaths == {"booking_cancel", "booking_turn"}
TextMessage == last'.path \notin CommandPaths \cup PhotoPaths

\* what has to hold of a sender whose message reached the classifier
ClassifiedOnlyWhenDue ==
    LET u == last'.user IN
    last'.path \in ClassifyPaths =>
        /\ u \notin blocked_users
        /\ rate_limit[u] < RATE_LIMIT_MAX
        /\ ~HasRecord(u)
        /\ u \in DOMAIN user_sessions'
        /\ Truthy(user_sessions'[u].phone)
        /\ user_sessions'[u].onboarding = ONBOARD_NONE

RecentAccepted(acc, t) == {i \in 1..Len(acc) : InWindow(t, acc[i])}

\* C26: for each user, over any sequence of check_rate_limit calls with
\* non-decreasing times, at most RATE_LIMIT_MAX calls are accepted within any
\* window of RATE_LIMIT_WINDOW seconds (accepted calls less than a window
\* apart); a rejected call is not recorded: the timestamps kept are those of
\* accepted calls only, so a call is accepted exactly when fewer than
\* RATE_LIMIT_MAX accepted calls of that user lie inside the window; and the
\* calls of one user leave the other users' timestamps alone.
C26_RateLimit ==
    [][rl_calls' = rl_calls + 1 =>
          LET u == rl_last'.user IN
          /\ \A v \in Users : \A i, j \in 1..Len(accepted'[v]) :
                (i <= j /\ InWindow(accepted'[v][j], accepted'[v][i])) =>
                    j - i + 1 <= RATE_LIMIT_MAX
          /\ rl_last'.ok <=> Cardinality(RecentAccepted(accepted[u], now')) < RATE_LIMIT_MAX
          /\ ~rl_last'.ok => accepted'[u] = accepted[u]
          /\ rl_last'.ok => accepted'[u] = Append(accepted[u], now')
          /\ rate_stamps'[u] =
                SubSeq(accepted'[u], Len(accepted'[u]) - Len(rate_stamps'[u]) + 1, Len(accepted'[u]))
          /\ Len(rate_stamps'[u]) = Cardinality(RecentAccepted(accepted'[u], now'))
          /\ \A v \in Users \ {u} :
                rate_stamps'[v] = rate_stamps[v] /\ accepted'[v] = accepted[v]]_vars

C26_Witness ==
    /\ rl_calls = MaxCalls
    /\ Len(accepted["u1"]) = RATE_LIMIT_MAX + 1
    /\ accepted["u1"][1] = 0
    /\ rl_last = [user |-> "u1", ok |-> TRUE]
    /\ now = RATE_LIMIT_WINDOW
    /\ rate_stamps["u1"] = <<59, 60>>

\* C27: each booking is persisted at most once: whenever an update makes a
\* save_appointment call for the record of a user, no save_appointment call
\* was made for that record before (a saved record is gone from
\* appointment_data before that user's next message is handled).
C27_SavedAtMostOnce ==
    [][\A u \in Users :
          (Handled /\ HasRecord(u) /\ saved'[u] > saved[u]) =>
              appointment_data[u].n_saved = 0]_vars

\* C28: when the gateways return the same results for the same query within
\* one retrieval call, the best score after expansion is at least the best
\* score of the fast search, and a call whose fast-search best score lies in
\* [0.50, 0.65] never returns a sentinel: once the expansion has finished,
\* it returns the chunk text.
C28_ExpansionKeepsFastBest ==
    (same_results /\ n_queries > 0) =>
        /\ (fast_max >= LOW_THRESHOLD /\ fast_max <= FAST_THRESHOLD) =>
                r_result.kind # "sentinel"
        /\ r_pc \in {"finalize", "done"} =>
              /\ SetMax(SeenScores \cup {0}) >= fast_max
              /\ unique_matches # <<>> => BestScore(unique_matches) >= fast_max
        /\ (BuildContextReturned /\ fast_max >= LOW_THRESHOLD) => r_result.kind = "context"

C28_Witness ==
    /\ same_results
    /\ r_pc = "done"
    /\ n_queries > 1
    /\ fast_max = LOW_THRESHOLD
    /\ SetMax(SeenScores \cup {0}) = LOW_THRESHOLD
    /\ r_result.kind = "context"

\* C29: in every reachable session, a non-null carfax_namespace is the
\* Carfax namespace of the customer's vehicle whose manual namespace is the
\* session's current namespace.
C29_CarfaxMatchesNamespace ==
    \A u \in DOMAIN user_sessions :
        user_sessions[u].carfax_namespace # Null =>
            user_sessions[u].carfax_namespace = CarfaxFor(user_sessions[u].namespace)

\* C30: the pending-booking offer is one-shot.  The pending check starts a
\* booking only for a user whose pending_booking was set, and after every
\* handled message of a user (one that passed the block and rate-limit
\* checks; commands aside) pending_booking is set only if that message was a
\* tech or photo turn: every other message has cleared it, so the flag a
\* later affirmative meets was set by the user's immediately preceding turn.
C30_PendingOfferOneShot ==
    [][Handled =>
          LET u == last'.user IN
          /\ last'.path = "pending_yes" =>
                (u \in DOMAIN user_sessions /\ user_sessions[u].pending_booking)
          /\ (last'.path \notin DroppedPaths \cup CommandPaths /\ u \in DOMAIN user_sessions') =>
                (user_sessions'[u].pending_booking => last'.path \in {"tech", "photo"})]_vars

====
